---------------------------- MODULE Spec2Model ----------------------------
(***************************************************************************)
(* Model of the commit message parser of git-journal (src/src/parser.rs). *)
(*                                                                         *)
(* A text is a sequence of one-character strings.  The nom combinators    *)
(* (tag!, alt!, chain!, alpha, digit, space, rest) and the regex crate's  *)
(* leftmost-first search are modelled by what they compute on such a      *)
(* text; a nom result is a record whose field r is "Done", "Error" or     *)
(* "Incomplete".                                                          *)
(***************************************************************************)
EXTENDS Integers, Sequences, FiniteSets

VARIABLES
    message,          \* the argument of parse_commit_message
    pc,               \* the position in the function being run
    commit_parts,     \* the pieces message.split("\n\n") iterates over
    next_part,        \* the index of the piece the iterator yields next
    parsed_summary,
    parsed_body,
    parsed_footer,
    result,           \* what parse_commit_message returns
    fn_in,            \* the argument of a parser called on its own
    fn_out,           \* its result
    fn_again          \* the result of the tag extractor on its own output

vars == <<message, pc, commit_parts, next_part, parsed_summary, parsed_body,
          parsed_footer, result, fn_in, fn_out, fn_again>>

-----------------------------------------------------------------------------
(* Character classes *)

\* nom::is_alphabetic: ASCII letters
Alpha ==
    {"a","b","c","d","e","f","g","h","i","j","k","l","m","n","o","p","q",
     "r","s","t","u","v","w","x","y","z",
     "A","B","C","D","E","F","G","H","I","J","K","L","M","N","O","P","Q",
     "R","S","T","U","V","W","X","Y","Z"}

\* nom::is_digit
Digit == {"0","1","2","3","4","5","6","7","8","9"}

\* nom::is_space: blank or tab
Space == {" ", "\t"}

\* char::is_whitespace (str::trim) and the regex class \s
WhiteSpace == {" ", "\t", "\n", "\r"}

\* the regex class [\w-]
WordOrHyphen == Alpha \cup Digit \cup {"_", "-"}

-----------------------------------------------------------------------------
(* Text helpers: str::trim, str::split, str::lines *)

Drop(s, n) == SubSeq(s, n + 1, Len(s))

StartsWith(s, p) == Len(s) >= Len(p) /\ SubSeq(s, 1, Len(p)) = p

RECURSIVE TrimStart(_)
TrimStart(s) ==
    IF s = <<>> THEN s
    ELSE IF Head(s) \in WhiteSpace THEN TrimStart(Tail(s)) ELSE s

RECURSIVE TrimEnd(_)
TrimEnd(s) ==
    IF s = <<>> THEN s
    ELSE IF s[Len(s)] \in WhiteSpace THEN TrimEnd(SubSeq(s, 1, Len(s) - 1))
    ELSE s

\* str::trim
Trim(s) == TrimEnd(TrimStart(s))

\* str::split(pat) for a non-empty pattern: leftmost, non-overlapping; the
\* result always has at least one piece
RECURSIVE SplitAt(_, _, _)
SplitAt(s, pat, i) ==
    IF i + Len(pat) - 1 > Len(s) THEN <<s>>
    ELSE IF SubSeq(s, i, i + Len(pat) - 1) = pat
         THEN <<SubSeq(s, 1, i - 1)>> \o SplitAt(Drop(s, i + Len(pat) - 1), pat, 1)
         ELSE SplitAt(s, pat, i + 1)

Split(s, pat) == SplitAt(s, pat, 1)

\* str::lines: split on "\n", no final empty line, a trailing "\r" removed
StripCR(l) ==
    IF l # <<>> /\ l[Len(l)] = "\r" THEN SubSeq(l, 1, Len(l) - 1) ELSE l

Lines(s) ==
    LET raw == Split(s, <<"\n">>)
        kept == IF raw[Len(raw)] = <<>> THEN SubSeq(raw, 1, Len(raw) - 1)
                ELSE raw
    IN [k \in 1..Len(kept) |-> StripCR(kept[k])]

RECURSIVE Flatten(_)
Flatten(ss) == IF ss = <<>> THEN <<>> ELSE Head(ss) \o Flatten(Tail(ss))

-----------------------------------------------------------------------------
(* RE_TAGS and parse_and_consume_tags *)

\* the closing colon of " :(.*?):" for a capture starting at j: the first
\* colon at or after j on the same line ('.' does not match "\n"), 0 if none
RECURSIVE ClosingColon(_, _)
ClosingColon(s, j) ==
    IF j > Len(s) \/ s[j] = "\n" THEN 0
    ELSE IF s[j] = ":" THEN j
    ELSE ClosingColon(s, j + 1)

\* the matches of RE_TAGS in s from position i on, left to right and
\* non-overlapping: records of the first and last position of a match
RECURSIVE RE_TAGS(_, _)
RE_TAGS(s, i) ==
    IF i + 2 > Len(s) THEN <<>>
    ELSE IF s[i] = " " /\ s[i + 1] = ":" /\ ClosingColon(s, i + 2) # 0
         THEN LET k == ClosingColon(s, i + 2)
              IN <<[from |-> i, to |-> k]>> \o RE_TAGS(s, k + 1)
         ELSE RE_TAGS(s, i + 1)

\* RE_TAGS.replace_all(string, "")
RECURSIVE RemoveMatches(_, _, _)
RemoveMatches(s, ms, i) ==
    IF ms = <<>> THEN SubSeq(s, i, Len(s))
    ELSE SubSeq(s, i, Head(ms).from - 1) \o RemoveMatches(s, Tail(ms), Head(ms).to + 1)

parse_and_consume_tags(input) ==
    LET ms == RE_TAGS(input, 1)
        pieces(m) == Split(SubSeq(input, m.from + 2, m.to - 1), <<",">>)
        trimmed(m) == [k \in 1..Len(pieces(m)) |-> Trim(pieces(m)[k])]
    IN [tags |-> Flatten([k \in 1..Len(ms) |-> trimmed(ms[k])]),
        text |-> RemoveMatches(input, ms, 1)]

-----------------------------------------------------------------------------
(* nom combinators *)

Done(i, o) == [r |-> "Done", i |-> i, o |-> o]
Error == [r |-> "Error"]
Incomplete == [r |-> "Incomplete"]

Min(a, b) == IF a < b THEN a ELSE b

\* tag!(bytes): Error when the input disagrees with the tag, Incomplete
\* when the input ends inside the tag
Tag(i, bytes) ==
    LET m == Min(Len(i), Len(bytes))
    IN IF SubSeq(i, 1, m) # SubSeq(bytes, 1, m) THEN Error
       ELSE IF m < Len(bytes) THEN Incomplete
       ELSE Done(Drop(i, Len(bytes)), bytes)

\* the length of the longest prefix of i made of characters of class
RECURSIVE Run(_, _)
Run(i, class) ==
    IF i = <<>> \/ Head(i) \notin class THEN 0 ELSE 1 + Run(Tail(i), class)

\* alpha, digit, space: the longest run of the class; Error when the first
\* character is not of the class, Done with an empty run on empty input
TakeClass(i, class) ==
    IF i # <<>> /\ Head(i) \notin class THEN Error
    ELSE Done(Drop(i, Run(i, class)), SubSeq(i, 1, Run(i, class)))

\* char!(c)
Char(i, c) ==
    IF i = <<>> THEN Incomplete
    ELSE IF Head(i) = c THEN Done(Tail(i), c)
    ELSE Error

\* separated_pair!(alpha, char!('-'), digit)
separated_pair(i) ==
    LET a == TakeClass(i, Alpha)
    IN IF a.r # "Done" THEN a
       ELSE LET h == Char(a.i, "-")
            IN IF h.r # "Done" THEN h
               ELSE LET d == TakeClass(h.i, Digit)
                    IN IF d.r # "Done" THEN d
                       ELSE Done(d.i, <<a.o, d.o>>)

\* many0!(space): every leading blank and tab is consumed
many0_space(i) == Done(Drop(i, Run(i, Space)), <<>>)

\* an optional element of chain!  ( p? ): the input after it when p is
\* Done, the input unchanged when p is Error; when p is Incomplete the
\* whole chain is Incomplete, which each chain below tests before this
AfterOpt(i, res) == IF res.r = "Done" THEN res.i ELSE i

-----------------------------------------------------------------------------
(* parse_category *)

Added == <<"A","d","d","e","d">>
Changed == <<"C","h","a","n","g","e","d">>
Fixed == <<"F","i","x","e","d">>
Improved == <<"I","m","p","r","o","v","e","d">>
Removed == <<"R","e","m","o","v","e","d">>

\* the alternatives of alt!, in the order the code lists them
Vocabulary == <<Added, Changed, Fixed, Improved, Removed>>

Categories == {Vocabulary[k] : k \in 1..Len(Vocabulary)}

\* alt!(tag!(..) | ..): the first alternative that is Done or Incomplete
RECURSIVE alt(_, _)
alt(i, words) ==
    IF words = <<>> THEN Error
    ELSE LET res == Tag(i, Head(words))
         IN IF res.r = "Error" THEN alt(i, Tail(words)) ELSE res

parse_category(i) ==
    LET open == Tag(i, <<"[">>)
    IN IF open.r = "Incomplete" THEN Incomplete
       ELSE LET word == alt(AfterOpt(i, open), Vocabulary)
            IN IF word.r # "Done" THEN word
               ELSE LET close == Tag(word.i, <<"]">>)
                    IN IF close.r = "Incomplete" THEN Incomplete
                       ELSE Done(AfterOpt(word.i, close), word.o)

-----------------------------------------------------------------------------
(* parse_list_item and parse_summary *)

parse_list_item(i) ==
    LET dash == Tag(many0_space(i).i, <<"-", " ">>)
    IN IF dash.r # "Done" THEN dash
       ELSE LET cat == parse_category(dash.i)
            IN IF cat.r # "Done" THEN cat
               ELSE LET p_tags_rest == parse_and_consume_tags(cat.i)
                    IN Done(<<>>, [category |-> cat.o,
                                   tags |-> p_tags_rest.tags,
                                   text |-> p_tags_rest.text])

\* parse_summary with the blanks after the category consumed as well
parse_summary_skip_blank(i) ==
    LET p_prefix == separated_pair(i)
    IN IF p_prefix.r = "Incomplete" THEN Incomplete
       ELSE LET i1 == AfterOpt(i, p_prefix)
                sp1 == TakeClass(i1, Space)
                cat == parse_category(AfterOpt(i1, sp1))
            IN IF cat.r # "Done" THEN cat
               ELSE LET close == Tag(cat.i, <<"]">>)
                    IN IF close.r = "Incomplete" THEN Incomplete
                       ELSE LET i2 == AfterOpt(cat.i, close)
                                p_tags_rest ==
                                    parse_and_consume_tags(Drop(i2, Run(i2, Space)))
                            IN Done(<<>>,
                                 [prefix |-> IF p_prefix.r = "Done"
                                             THEN p_prefix.o[1] \o <<"-">> \o p_prefix.o[2]
                                             ELSE <<>>,
                                  category |-> cat.o,
                                  tags |-> p_tags_rest.tags,
                                  text |-> p_tags_rest.text])

parse_summary(i) ==
    LET p_prefix == separated_pair(i)
    IN IF p_prefix.r = "Incomplete" THEN Incomplete
       ELSE LET i1 == AfterOpt(i, p_prefix)
                sp == TakeClass(i1, Space)
                cat == parse_category(AfterOpt(i1, sp))
            IN IF cat.r # "Done" THEN cat
               ELSE LET close == Tag(cat.i, <<"]">>)
                    IN IF close.r = "Incomplete" THEN Incomplete
                       ELSE LET p_tags_rest ==
                                    parse_and_consume_tags(AfterOpt(cat.i, close))
                            IN Done(<<>>,
                                 [prefix |-> IF p_prefix.r = "Done"
                                             THEN p_prefix.o[1] \o <<"-">> \o p_prefix.o[2]
                                             ELSE <<>>,
                                  category |-> cat.o,
                                  tags |-> p_tags_rest.tags,
                                  text |-> p_tags_rest.text])

-----------------------------------------------------------------------------
(* RE_FOOTER and RE_LIST (both multi-line: ^ and $ match at line breaks) *)

LineStart(s, i) == i = 1 \/ s[i - 1] = "\n"

\* the first position at or after j that '.' does not match: a line break
\* or the end of the text
RECURSIVE LineEnd(_, _)
LineEnd(s, j) ==
    IF j > Len(s) \/ s[j] = "\n" THEN j ELSE LineEnd(s, j + 1)

\* ^([\w-]+):\s at position i; \s is any whitespace, the line break too
FooterAt(s, i) ==
    LET n == Run(Drop(s, i - 1), WordOrHyphen)
    IN /\ LineStart(s, i)
       /\ n >= 1
       /\ i + n + 1 <= Len(s)
       /\ s[i + n] = ":"
       /\ s[i + n + 1] \in WhiteSpace

\* RE_FOOTER.captures_iter(part): the matches from position i on, left to
\* right and non-overlapping, as FooterElements (groups 1 and 2 take part
\* in every match, so cap.at(1) and cap.at(2) are never None)
RECURSIVE RE_FOOTER(_, _)
RE_FOOTER(s, i) ==
    IF i > Len(s) THEN <<>>
    ELSE IF FooterAt(s, i)
         THEN LET n == Run(Drop(s, i - 1), WordOrHyphen)
                  e == LineEnd(s, i + n + 2)
              IN <<[key |-> SubSeq(s, i, i + n - 1),
                    value |-> SubSeq(s, i + n + 2, e - 1)]>> \o RE_FOOTER(s, e)
         ELSE RE_FOOTER(s, i + 1)

\* RE_FOOTER.is_match(part)
RE_FOOTER_is_match(s) == \E i \in 1..Len(s) : FooterAt(s, i)

\* RE_LIST matched at the start of the block only
RE_LIST_match_at_start(s) ==
    Len(s) >= 2 /\ s[1] = "-" /\ s[2] \in WhiteSpace

\* RE_LIST.is_match(part): ^-\s.*$ matches at the start of any line, the
\* group that follows it may match zero times
RE_LIST_is_match(s) ==
    \E i \in 1..(Len(s) - 1) :
        LineStart(s, i) /\ s[i] = "-" /\ s[i + 1] \in WhiteSpace

-----------------------------------------------------------------------------
(* The grammars of the blocks after the first *)

\* the loop over the blocks with the list test before the footer test
BlockKind_list_first(part) ==
    IF RE_LIST_is_match(part) THEN "list"
    ELSE IF RE_FOOTER_is_match(part) THEN "footer"
    ELSE "paragraph"

\* the if / else if / else of the loop over the blocks
BlockKind(part) ==
    IF RE_FOOTER_is_match(part) THEN "footer"
    ELSE IF RE_LIST_is_match(part) THEN "list"
    ELSE "paragraph"

\* the list items of a list block: the lines parse_list_item is Done on
RECURSIVE ListItems(_)
ListItems(ls) ==
    IF ls = <<>> THEN <<>>
    ELSE LET res == parse_list_item(Head(ls))
         IN (IF res.r = "Done" THEN <<res.o>> ELSE <<>>) \o ListItems(Tail(ls))

ListOf(part) == [kind |-> "List", items |-> ListItems(Lines(part))]

ParagraphOf(part) ==
    LET t == parse_and_consume_tags(part)
    IN [kind |-> "Paragraph", text |-> Trim(t.text), tags |-> t.tags]

-----------------------------------------------------------------------------
(* Inputs *)

MaxBlocks == 2
MaxTagLen == 6

sp == <<" ">>
nl == <<"\n">>

Prefixes == {<<"A","B","-","1">>, <<"x","-","4","2">>}

Texts == {<<"x">>, <<"x"," ","y">>, <<"a",":","b">>, <<"x"," ",":","y">>,
          <<":","y">>}

TagNames == {<<"a">>, <<"b","c">>}

\* the four bracket forms of a category word
CatForms ==
    {open \o c \o close :
        open \in {<<>>, <<"[">>}, c \in Categories, close \in {<<>>, <<"]">>}}

NotCategories == {<<"n","o","t">>, <<"A","d","d">>, <<"a","d","d","e","d">>}

\* prefix + " [" + category + "] " + text + " :a,b:"
TaggedSummary(p, c, t, a, b) ==
    p \o <<" ", "[">> \o c \o <<"]", " ">> \o t
      \o <<" ", ":">> \o a \o <<",">> \o b \o <<":">>

TaggedSummaries ==
    {TaggedSummary(p, c, t, a, b) :
        p \in Prefixes, c \in Categories, t \in Texts,
        a \in TagNames, b \in TagNames}

SummaryTails ==
    {<<>>, <<" ","x">>, <<"]">>, <<"]"," ","x"," ",":","a",":">>}

SummaryLines ==
    {pre \o gap \o cat \o tail :
        pre \in {<<>>, <<"A","B","-","1">>, <<"A","B","-">>},
        gap \in {<<>>, sp},
        cat \in CatForms \cup NotCategories,
        tail \in SummaryTails}

WhitespaceOnly == {<<>>, sp, nl, <<" ","\n">>, <<"\t">>, <<"\n","\n">>,
                   <<"\n","\n"," ">>}

Padded == {sp \o l \o nl : l \in {<<"n","o","t">>, <<"[">> \o Fixed \o <<"]"," ","x">>}}

\* a valid summary, an invalid one and an empty first block
HeadSummaries == {<<"[">> \o Added \o <<"]"," ","x">>, <<"n","o","t">>, <<>>}

KeyV == <<"K","e","y",":"," ","v">>
K1W == <<"K","-","1",":"," ","w">>
KeyOnly == <<"K","e","y",":">>
ItemAdded == <<"-"," ","[">> \o Added \o <<"]"," ","x">>
ItemFixedTagged == <<"-"," ">> \o Fixed \o <<" ","y"," ",":","a",",","b",":">>
ItemPlain == <<"-"," ","x">>
ItemIndented == <<" "," ","-"," ","[">> \o Removed \o <<"]">>
Plain == <<"t","e","x","t">>
PlainTagged == <<"t","e","x","t"," ",":","a",":"," ","y">>

Blocks ==
    {<<>>,
     KeyV,
     KeyV \o nl \o K1W,
     KeyV \o nl \o ItemAdded,
     ItemAdded \o nl \o KeyV,
     Plain \o nl \o KeyV,
     KeyOnly \o nl \o Plain,
     ItemAdded,
     ItemAdded \o nl \o ItemFixedTagged,
     ItemAdded \o nl \o ItemIndented,
     ItemAdded \o nl \o ItemPlain,
     ItemPlain,
     Plain \o nl \o ItemAdded,
     Plain,
     PlainTagged,
     <<"-">> \o nl \o Plain,
     Plain \o nl \o <<"-">>,
     nl \o KeyV,
     <<"K","e","y",":","v">>,
     <<"K"," ","y",":"," ","v">>}

\* the blocks joined by the blank line that separates them
RECURSIVE Join(_)
Join(bs) ==
    IF Len(bs) = 1 THEN bs[1] ELSE bs[1] \o nl \o nl \o Join(Tail(bs))

BlockSeqs == UNION {[1..n -> Blocks] : n \in 0..MaxBlocks}

Messages ==
    TaggedSummaries \cup SummaryLines \cup WhitespaceOnly \cup Padded
    \cup {Join(<<h>> \o bs) : h \in HeadSummaries, bs \in BlockSeqs}

TagAlphabet == {" ", ":", "a", ",", "\n"}

TagInputs == UNION {[1..n -> TagAlphabet] : n \in 0..MaxTagLen}

Followers == {<<>>, <<" ","x">>, <<"x">>, <<"]">>}

CategoryInputs ==
    {f \o g : f \in CatForms \cup NotCategories \cup {<<>>, <<"[">>}, g \in Followers}

-----------------------------------------------------------------------------
(* parse_commit_message *)

NoResult == [kind |-> "None"]
NoSummary == [prefix |-> <<>>, category |-> <<>>, tags |-> <<>>, text |-> <<>>]

Init ==
    /\ message \in Messages
    /\ pc = "start"
    /\ commit_parts = <<>>
    /\ next_part = 1
    /\ parsed_summary = NoSummary
    /\ parsed_body = <<>>
    /\ parsed_footer = <<>>
    /\ result = NoResult
    /\ fn_in = <<>>
    /\ fn_out = NoResult
    /\ fn_again = NoResult

\* ParseSummary with the error carrying the first block as it was split
ParseSummary_untrimmed ==
    /\ pc = "start"
    /\ LET parts == Split(message, <<"\n","\n">>)
           res == parse_summary(Trim(parts[1]))
       IN /\ commit_parts' = parts
          /\ IF res.r = "Done"
             THEN /\ parsed_summary' = res.o
                  /\ next_part' = 2
                  /\ pc' = "blocks"
                  /\ UNCHANGED result
             ELSE /\ result' = [kind |-> "Err", error |-> "SummaryParsing",
                                text |-> parts[1]]
                  /\ pc' = "done"
                  /\ UNCHANGED <<next_part, parsed_summary>>
    /\ UNCHANGED <<message, parsed_body, parsed_footer, fn_in, fn_out, fn_again>>

\* the split, commit_parts.nth(0), the trim and parse_summary
ParseSummary ==
    /\ pc = "start"
    /\ LET parts == Split(message, <<"\n","\n">>)
           summary_line == Trim(parts[1])
           res == parse_summary(summary_line)
       IN /\ commit_parts' = parts
          /\ IF Len(parts) = 0
             THEN /\ result' = [kind |-> "Err", error |-> "CommitMessageLength",
                                text |-> <<>>]
                  /\ pc' = "done"
                  /\ UNCHANGED <<next_part, parsed_summary>>
             ELSE IF res.r = "Done"
             THEN /\ parsed_summary' = res.o
                  /\ next_part' = 2
                  /\ pc' = "blocks"
                  /\ UNCHANGED result
             ELSE /\ result' = [kind |-> "Err", error |-> "SummaryParsing",
                                text |-> summary_line]
                  /\ pc' = "done"
                  /\ UNCHANGED <<next_part, parsed_summary>>
    /\ UNCHANGED <<message, parsed_body, parsed_footer, fn_in, fn_out, fn_again>>

HasPart == pc = "blocks" /\ next_part <= Len(commit_parts)

FooterBlock ==
    /\ HasPart
    /\ BlockKind(commit_parts[next_part]) = "footer"
    /\ parsed_footer' = parsed_footer \o RE_FOOTER(commit_parts[next_part], 1)
    /\ next_part' = next_part + 1
    /\ UNCHANGED <<message, pc, commit_parts, parsed_summary, parsed_body,
                   result, fn_in, fn_out, fn_again>>

\* ListBlock with a list pushed only when it has items
ListBlock_skip_empty ==
    /\ pc = "blocks" /\ next_part <= Len(commit_parts)
    /\ BlockKind(commit_parts[next_part]) = "list"
    /\ parsed_body' = IF ListItems(Lines(commit_parts[next_part])) = <<>>
                      THEN parsed_body
                      ELSE Append(parsed_body, ListOf(commit_parts[next_part]))
    /\ next_part' = next_part + 1
    /\ UNCHANGED <<message, pc, commit_parts, parsed_summary, parsed_footer,
                   result, fn_in, fn_out, fn_again>>

ListBlock ==
    /\ HasPart
    /\ BlockKind(commit_parts[next_part]) = "list"
    /\ parsed_body' = Append(parsed_body, ListOf(commit_parts[next_part]))
    /\ next_part' = next_part + 1
    /\ UNCHANGED <<message, pc, commit_parts, parsed_summary, parsed_footer,
                   result, fn_in, fn_out, fn_again>>

ParagraphBlock ==
    /\ HasPart
    /\ BlockKind(commit_parts[next_part]) = "paragraph"
    /\ parsed_body' = Append(parsed_body, ParagraphOf(commit_parts[next_part]))
    /\ next_part' = next_part + 1
    /\ UNCHANGED <<message, pc, commit_parts, parsed_summary, parsed_footer,
                   result, fn_in, fn_out, fn_again>>

Return ==
    /\ pc = "blocks"
    /\ next_part > Len(commit_parts)
    /\ result' = [kind |-> "Ok",
                  commit |-> [summary |-> parsed_summary,
                              body |-> parsed_body,
                              footer |-> parsed_footer]]
    /\ pc' = "done"
    /\ UNCHANGED <<message, commit_parts, next_part, parsed_summary,
                   parsed_body, parsed_footer, fn_in, fn_out, fn_again>>

Next == ParseSummary \/ FooterBlock \/ ListBlock \/ ParagraphBlock \/ Return

Spec == Init /\ [][Next]_vars

-----------------------------------------------------------------------------
(* The tag extractor and the category grammar called on their own *)

Idle ==
    /\ message = <<>>
    /\ commit_parts = <<>>
    /\ next_part = 1
    /\ parsed_summary = NoSummary
    /\ parsed_body = <<>>
    /\ parsed_footer = <<>>
    /\ result = NoResult

IdleVars == <<message, commit_parts, next_part, parsed_summary, parsed_body,
              parsed_footer, result>>

InitTags ==
    /\ Idle
    /\ pc = "call"
    /\ fn_in \in TagInputs
    /\ fn_out = NoResult
    /\ fn_again = NoResult

ExtractTags ==
    /\ pc = "call"
    /\ fn_out' = parse_and_consume_tags(fn_in)
    /\ pc' = "ret"
    /\ UNCHANGED <<IdleVars, fn_in, fn_again>>

ExtractAgain ==
    /\ pc = "ret"
    /\ fn_again' = parse_and_consume_tags(fn_out.text)
    /\ pc' = "again"
    /\ UNCHANGED <<IdleVars, fn_in, fn_out>>

NextTags == ExtractTags \/ ExtractAgain

SpecTags == InitTags /\ [][NextTags]_vars

InitCategory ==
    /\ Idle
    /\ pc = "call"
    /\ fn_in \in CategoryInputs
    /\ fn_out = NoResult
    /\ fn_again = NoResult

CallCategory ==
    /\ pc = "call"
    /\ fn_out' = parse_category(fn_in)
    /\ pc' = "ret"
    /\ UNCHANGED <<IdleVars, fn_in, fn_again>>

NextCategory == CallCategory

SpecCategory == InitCategory /\ [][NextCategory]_vars

-----------------------------------------------------------------------------
(* Vocabulary of the properties, stated without the parsers above *)

\* the lines of a block, a final empty one included
RawLines(part) == Split(part, nl)

\* a line of the form key: value, with key made of word characters and
\* hyphens and a whitespace character after the colon
FooterLine(l) ==
    LET n == Run(l, WordOrHyphen)
    IN n >= 1 /\ Len(l) >= n + 2 /\ l[n + 1] = ":" /\ l[n + 2] \in WhiteSpace

FooterLineElement(l) ==
    LET n == Run(l, WordOrHyphen)
    IN [key |-> SubSeq(l, 1, n), value |-> SubSeq(l, n + 3, Len(l))]

HasFooterLine(part) ==
    \E k \in 1..Len(RawLines(part)) : FooterLine(RawLines(part)[k])

CountFooterLines(part) ==
    Cardinality({k \in 1..Len(RawLines(part)) : FooterLine(RawLines(part)[k])})

\* a line that begins with "- "
DashLine(l) == StartsWith(l, <<"-", " ">>)

HasDashLine(part) ==
    \E k \in 1..Len(RawLines(part)) : DashLine(RawLines(part)[k])

\* some line begins with "-" and a whitespace character, which for a line
\* that is only "-" is the line break after it
HasDashSpaceLine(part) ==
    \E k \in 1..Len(RawLines(part)) :
        LET l == RawLines(part)[k]
        IN /\ l # <<>>
           /\ l[1] = "-"
           /\ IF Len(l) >= 2 THEN l[2] \in WhiteSpace
              ELSE k < Len(RawLines(part))

\* the text before the first blank line of the message
FirstBlock == Split(message, <<"\n", "\n">>)[1]

\* letters, a hyphen, digits
PrefixToken(u) ==
    \E i \in 2..(Len(u) - 1) :
        /\ u[i] = "-"
        /\ \A j \in 1..(i - 1) : u[j] \in Alpha
        /\ \A j \in (i + 1)..Len(u) : u[j] \in Digit

\* what may stand before the category word: an optional prefix, optional
\* blanks, an optional "["
Lead(u) ==
    \E a \in 0..Len(u) : \E b \in a..Len(u) :
        /\ a = 0 \/ PrefixToken(SubSeq(u, 1, a))
        /\ \A j \in (a + 1)..b : u[j] \in Space
        /\ b = Len(u) \/ (b = Len(u) - 1 /\ u[Len(u)] = "[")

\* optional prefix, optional whitespace, category, optional "]", rest
SatisfiesSummaryGrammar(s) ==
    \E c \in Categories : \E i \in 0..(Len(s) - Len(c)) :
        SubSeq(s, i + 1, i + Len(c)) = c /\ Lead(SubSeq(s, 1, i))

\* no colon directly after a blank
NoSpaceColon(u) ==
    \A i \in 1..(Len(u) - 1) : ~(u[i] = " " /\ u[i + 1] = ":")

\* the blocks after the first that the loop has been through
Processed ==
    IF pc \in {"blocks", "done"} THEN 2..(next_part - 1) ELSE {}

\* a block has just been handled
JustHandled == pc \in {"blocks", "done"} /\ next_part > 2

LastPart == commit_parts[next_part - 1]

LastBody == parsed_body[Len(parsed_body)]

NonFooter(k) == {j \in 2..k : BlockKind(commit_parts[j]) # "footer"}

RECURSIVE FootersUpTo(_)
FootersUpTo(k) ==
    IF k < 2 THEN <<>>
    ELSE FootersUpTo(k - 1) \o
         (IF BlockKind(commit_parts[k]) = "footer"
          THEN RE_FOOTER(commit_parts[k], 1) ELSE <<>>)

RECURSIVE SumFooterLines(_)
SumFooterLines(k) ==
    IF k < 2 THEN 0
    ELSE SumFooterLines(k - 1) +
         (IF BlockKind(commit_parts[k]) = "footer"
          THEN CountFooterLines(commit_parts[k]) ELSE 0)

-----------------------------------------------------------------------------
(* Properties *)

\* C1: an empty or whitespace-only message fails with CommitMessageLength,
\* never with SummaryParsing.
C1_EmptyMessageIsLengthError ==
    (pc = "done" /\ Trim(message) = <<>>) =>
        (result.kind = "Err" /\ result.error = "CommitMessageLength")

C3_AllFourForms ==
    \A c \in Categories :
        (/\ pc = "ret"
         /\ fn_in \in {<<"[">> \o c \o <<"]">>, c \o <<"]">>, <<"[">> \o c, c})
        => (fn_out.r = "Done" /\ fn_out.o = c)

\* C4: the text the tag extractor returns has no tag marker left, so the
\* extractor run on it returns no tag and the same text.
C4_Idempotent ==
    pc = "again" =>
        /\ RE_TAGS(fn_out.text, 1) = <<>>
        /\ fn_again.tags = <<>>
        /\ fn_again.text = fn_out.text

\* C5: when the trimmed first block does not satisfy the summary grammar,
\* the result is SummaryParsing carrying exactly the trimmed first block,
\* and no later block has been processed.
C5_SummaryFailure ==
    (pc # "start" /\ ~SatisfiesSummaryGrammar(Trim(FirstBlock))) =>
        /\ pc = "done"
        /\ result.kind = "Err"
        /\ result.error = "SummaryParsing"
        /\ result.text = Trim(FirstBlock)
        /\ next_part = 1
        /\ parsed_body = <<>>
        /\ parsed_footer = <<>>

C5_Witness ==
    /\ pc = "done"
    /\ ~SatisfiesSummaryGrammar(Trim(FirstBlock))
    /\ Trim(FirstBlock) # <<>>
    /\ Trim(FirstBlock) # FirstBlock
    /\ result.kind = "Err"
    /\ result.text = Trim(FirstBlock)

\* C6: a block with a key: value line is handled as a footer block, also
\* when it has "- " lines: handling it leaves the body as it is and extends
\* the footer.
C6_FooterPriority ==
    [][(HasPart /\ HasFooterLine(commit_parts[next_part])) =>
        /\ parsed_body' = parsed_body
        /\ Len(parsed_footer') > Len(parsed_footer)
        /\ SubSeq(parsed_footer', 1, Len(parsed_footer)) = parsed_footer]_vars

C6_Witness ==
    /\ JustHandled
    /\ HasFooterLine(LastPart)
    /\ HasDashLine(LastPart)
    /\ DashLine(LastPart)
    /\ parsed_body = <<>>
    /\ parsed_footer # <<>>

\* C7 as stated: a block not handled as footer becomes a list only if its
\* first line begins with "- ".
C7_ListOnlyFromStart ==
    (JustHandled /\ BlockKind(LastPart) # "footer") =>
        (LastBody.kind = "List" => DashLine(LastPart))

\* C7 amended: a block not handled as footer becomes a list exactly when
\* some line of it, the first or a later one, begins with "-" followed by
\* a whitespace character; otherwise it becomes a paragraph.
C7_ListFromAnyLine ==
    (JustHandled /\ BlockKind(LastPart) # "footer") =>
        /\ LastBody.kind \in {"List", "Paragraph"}
        /\ LastBody.kind = "List" <=> HasDashSpaceLine(LastPart)

C7_Witness ==
    /\ JustHandled
    /\ BlockKind(LastPart) # "footer"
    /\ ~DashLine(LastPart)
    /\ HasDashSpaceLine(LastPart)
    /\ LastBody.kind = "List"
    /\ LastBody.items # <<>>

\* C8: in a list block, a line "- text" with no category keyword after the
\* "- " yields a list element with the empty category and the text and
\* tags of the rest of the line.
C8_ItemWithoutCategory ==
    (JustHandled /\ BlockKind(LastPart) = "list") =>
        \A k \in 1..Len(Lines(LastPart)) :
            LET l == Drop(Lines(LastPart)[k], Run(Lines(LastPart)[k], Space))
                rest == Drop(l, 2)
            IN (DashLine(l) /\ \A c \in Categories :
                                 ~StartsWith(rest, c) /\ ~StartsWith(rest, <<"[">> \o c))
               => \E j \in 1..Len(LastBody.items) :
                    LastBody.items[j] =
                        [category |-> <<>>,
                         tags |-> parse_and_consume_tags(rest).tags,
                         text |-> parse_and_consume_tags(rest).text]

\* C9: every block not handled as footer gives exactly one body element,
\* in block order, a list (possibly without items) or a paragraph, and
\* nothing in the footer; the footer holds the elements of the footer
\* blocks in block order and, within a block, in line order.
C9_BodyAndFooterOrder ==
    pc \in {"blocks", "done"} =>
        /\ Len(parsed_body) = Cardinality(NonFooter(next_part - 1))
        /\ \A k \in NonFooter(next_part - 1) :
              parsed_body[Cardinality(NonFooter(k))] =
                  IF BlockKind(commit_parts[k]) = "list"
                  THEN ListOf(commit_parts[k])
                  ELSE ParagraphOf(commit_parts[k])
        /\ parsed_footer = FootersUpTo(next_part - 1)
        /\ result.kind = "Ok" =>
              /\ next_part = Len(commit_parts) + 1
              /\ result.commit.body = parsed_body
              /\ result.commit.footer = parsed_footer

C9_Witness ==
    /\ pc = "done"
    /\ result.kind = "Ok"
    /\ Len(commit_parts) = 3
    /\ BlockKind(commit_parts[2]) = "list"
    /\ BlockKind(commit_parts[3]) = "paragraph"
    /\ result.commit.body[1] = [kind |-> "List", items |-> <<>>]
    /\ result.commit.body[2].kind = "Paragraph"
    /\ result.commit.body[2].text = <<>>

\* C10: a footer block adds as many footer elements as it has key: value
\* lines, each element is such a line's key and value, and the block adds
\* nothing to the body.
C10_FooterLinesOnly ==
    (pc = "done" /\ result.kind = "Ok") =>
        /\ Len(parsed_footer) = SumFooterLines(Len(commit_parts))
        /\ \A j \in 1..Len(parsed_footer) :
              \E k \in 2..Len(commit_parts) :
                  \E n \in 1..Len(RawLines(commit_parts[k])) :
                      /\ FooterLine(RawLines(commit_parts[k])[n])
                      /\ parsed_footer[j] =
                            FooterLineElement(RawLines(commit_parts[k])[n])
        /\ Len(parsed_body) = Cardinality(NonFooter(Len(commit_parts)))

=============================================================================
